---------------------------- MODULE Spec2Model ----------------------------
(***************************************************************************)
(* A model of package jason (src/jason.go): the Value wrapper over a byte  *)
(* slice, its MarshalJSON / UnmarshalJSON / String / GoString methods and  *)
(* the generic helpers From, To, Is, Maybe (and ToA, AsA, IsA of the       *)
(* RawValue variant of the file).                                          *)
(*                                                                         *)
(* Memory is modelled at the level of Go slices: a slice is a reference    *)
(* (buf, len) to a backing array held in `heap`; its capacity is the       *)
(* length of the backing array.  The codec the package delegates to        *)
(* (encoding/json) is modelled for the JSON subset null, true, false,      *)
(* unsigned integers and arrays, and the Go types bool, int, float64,      *)
(* []int, []any and any.                                                   *)
(***************************************************************************)
EXTENDS Integers, Sequences, FiniteSets, TLC

(***************************************************************************)
(* Bounds of the model.                                                    *)
(***************************************************************************)
\* extra capacity an allocation may have beyond the bytes it must hold
MaxSlack == 1
\* writes the caller makes to its own slice after handing it to UnmarshalJSON
MaxMut == 1
\* largest integer among the typed values handed to From
MaxInt == 1

(***************************************************************************)
(* Bytes.  A byte is a one-character string; NUL is the zero byte of       *)
(* freshly allocated memory.                                               *)
(***************************************************************************)
NUL == "_"

DigitChars == <<"0", "1", "2", "3", "4", "5", "6", "7", "8", "9">>

IsDigit(c) == \E i \in 1..10 : DigitChars[i] = c

DigitVal(c) == (CHOOSE i \in 1..10 : DigitChars[i] = c) - 1

NullLit == <<"n", "u", "l", "l">>

TrueLit == <<"t", "r", "u", "e">>

FalseLit == <<"f", "a", "l", "s", "e">>

\* the byte strings the caller hands to the wrapper
Inputs ==
  { <<>>,
    NullLit,
    <<"1">>,
    <<"[", "1", ",", "t", "r", "u", "e", "]">>,
    <<"[", "1">> }

\* the contents of the wrappers the decoding helpers are applied to
CodecInputs ==
  Inputs \cup
  { TrueLit,
    FalseLit,
    <<"0">>,
    <<"0", "1">>,
    <<"1", "0">>,
    <<"[", "]">>,
    <<"[", "1", "]">>,
    <<"[", "1", ",", "0", "]">>,
    <<"[", "1", ",", "]">>,
    <<"[", "n", "u", "l", "l", "]">>,
    <<"[", "[", "1", "]", ",", "1", "]">>,
    <<"n", "u", "l">>,
    <<"1", "x">>,
    <<"x">> }

\* the values the caller writes into its slice afterwards
MutBytes == {"x"}

(***************************************************************************)
(* Go values.  k is the dynamic type; a value of static type any is the    *)
(* value it holds (k = "nil" for the nil interface).                       *)
(***************************************************************************)
Types == {"bool", "int", "float64", "[]int", "[]any", "any"}

VNil == [k |-> "nil", nil |-> TRUE, b |-> FALSE, n |-> 0, e |-> <<>>]

VBool(b) == [k |-> "bool", nil |-> FALSE, b |-> b, n |-> 0, e |-> <<>>]

VInt(n) == [k |-> "int", nil |-> FALSE, b |-> FALSE, n |-> n, e |-> <<>>]

VFloat(n) == [k |-> "float64", nil |-> FALSE, b |-> FALSE, n |-> n, e |-> <<>>]

VSlice(k, e) == [k |-> k, nil |-> FALSE, b |-> FALSE, n |-> 0, e |-> e]

VNilSlice(k) == [k |-> k, nil |-> TRUE, b |-> FALSE, n |-> 0, e |-> <<>>]

VFunc == [k |-> "func", nil |-> FALSE, b |-> FALSE, n |-> 0, e |-> <<>>]

\* the zero value of a variable `var v T`
Zero(T) ==
  CASE T = "bool" -> VBool(FALSE)
    [] T = "int" -> VInt(0)
    [] T = "float64" -> VFloat(0)
    [] T = "[]int" -> VNilSlice("[]int")
    [] T = "[]any" -> VNilSlice("[]any")
    [] T = "any" -> VNil

ElemType(T) == IF T = "[]int" THEN "int" ELSE "any"

(***************************************************************************)
(* encoding/json, encoder side: json.Marshal(v).                           *)
(***************************************************************************)
RECURSIVE Itoa(_)
Itoa(n) ==
  IF n < 10 THEN <<DigitChars[n + 1]>>
  ELSE Itoa(n \div 10) \o <<DigitChars[(n % 10) + 1]>>

RECURSIVE EncodeValue(_)
RECURSIVE EncodeElems(_, _)
EncodeElems(e, i) ==
  IF i > Len(e) THEN <<>>
  ELSE (IF i > 1 THEN <<",">> ELSE <<>>) \o EncodeValue(e[i]) \o EncodeElems(e, i + 1)

EncodeValue(v) ==
  CASE v.k = "nil" -> NullLit
    [] v.k = "bool" -> (IF v.b THEN TrueLit ELSE FalseLit)
    [] v.k \in {"int", "float64"} -> Itoa(v.n)
    [] v.k \in {"[]int", "[]any"} ->
         IF v.nil THEN NullLit ELSE <<"[">> \o EncodeElems(v.e, 1) \o <<"]">>

\* json.Marshal: an error for a value the codec cannot encode
Marshal(v) ==
  IF v.k = "func" THEN [bytes |-> <<>>, err |-> "UnsupportedTypeError"]
  ELSE [bytes |-> EncodeValue(v), err |-> "nil"]

(***************************************************************************)
(* encoding/json, decoder side: the syntax check (checkValid) as a         *)
(* recursive-descent parse, then the decode into a target of type T.       *)
(***************************************************************************)
HasPrefix(s, i, lit) ==
  /\ i + Len(lit) - 1 <= Len(s)
  /\ \A k \in 1..Len(lit) : s[i + k - 1] = lit[k]

JNull == [j |-> "null", n |-> 0, elems |-> <<>>]

JBool(b) == [j |-> IF b THEN "true" ELSE "false", n |-> 0, elems |-> <<>>]

JNum(n) == [j |-> "number", n |-> n, elems |-> <<>>]

JArr(elems) == [j |-> "array", n |-> 0, elems |-> elems]

ParseFail == [ok |-> FALSE, tree |-> JNull, next |-> 0]

ParseOk(t, next) == [ok |-> TRUE, tree |-> t, next |-> next]

\* the digits of a number starting at i: "0", or a non-zero digit and more digits
RECURSIVE ParseDigits(_, _, _)
ParseDigits(s, i, acc) ==
  IF i <= Len(s) /\ IsDigit(s[i])
  THEN ParseDigits(s, i + 1, 10 * acc + DigitVal(s[i]))
  ELSE ParseOk(JNum(acc), i)

RECURSIVE ParseValue(_, _)
RECURSIVE ParseElems(_, _, _)
\* after an element: "," and another element, or "]"
ParseElems(s, i, acc) ==
  LET p == ParseValue(s, i) IN
  IF ~p.ok THEN ParseFail
  ELSE IF p.next > Len(s) THEN ParseFail
  ELSE IF s[p.next] = "]" THEN ParseOk(JArr(Append(acc, p.tree)), p.next + 1)
  ELSE IF s[p.next] = "," THEN ParseElems(s, p.next + 1, Append(acc, p.tree))
  ELSE ParseFail

ParseValue(s, i) ==
  IF i > Len(s) THEN ParseFail
  ELSE IF HasPrefix(s, i, NullLit) THEN ParseOk(JNull, i + 4)
  ELSE IF HasPrefix(s, i, TrueLit) THEN ParseOk(JBool(TRUE), i + 4)
  ELSE IF HasPrefix(s, i, FalseLit) THEN ParseOk(JBool(FALSE), i + 5)
  ELSE IF s[i] = "0" THEN ParseOk(JNum(0), i + 1)
  ELSE IF IsDigit(s[i]) THEN ParseDigits(s, i, 0)
  ELSE IF s[i] = "[" THEN
         (IF i + 1 <= Len(s) /\ s[i + 1] = "]" THEN ParseOk(JArr(<<>>), i + 2)
          ELSE ParseElems(s, i + 1, <<>>))
  ELSE ParseFail

\* one complete JSON value and nothing after it
CheckValid(s) ==
  LET p == ParseValue(s, 1) IN p.ok /\ p.next = Len(s) + 1

FirstErr(a, b) == IF a # "nil" THEN a ELSE b

\* d.value: store the parsed value t into a target of type T holding cur; a value
\* of the wrong shape is skipped, the target is left alone and the first such
\* error is kept (d.saveError) while decoding goes on
RECURSIVE Decode(_, _, _)
RECURSIVE DecodeElems(_, _, _, _)
DecodeElems(elems, T, i, acc) ==
  IF i > Len(elems) THEN acc
  ELSE LET r == Decode(elems[i], ElemType(T), Zero(ElemType(T))) IN
       DecodeElems(elems, T, i + 1,
                   [v |-> Append(acc.v, r.v), err |-> FirstErr(acc.err, r.err)])

Decode(t, T, cur) ==
  CASE t.j = "null" ->
         [v |-> IF T \in {"[]int", "[]any", "any"} THEN Zero(T) ELSE cur, err |-> "nil"]
    [] t.j \in {"true", "false"} ->
         IF T \in {"bool", "any"} THEN [v |-> VBool(t.j = "true"), err |-> "nil"]
         ELSE [v |-> cur, err |-> "UnmarshalTypeError"]
    [] t.j = "number" ->
         IF T = "int" THEN [v |-> VInt(t.n), err |-> "nil"]
         ELSE IF T \in {"float64", "any"} THEN [v |-> VFloat(t.n), err |-> "nil"]
         ELSE [v |-> cur, err |-> "UnmarshalTypeError"]
    [] t.j = "array" ->
         IF T \in {"[]int", "[]any", "any"}
         THEN LET ST == IF T = "any" THEN "[]any" ELSE T
                  r == DecodeElems(t.elems, ST, 1, [v |-> <<>>, err |-> "nil"])
              IN [v |-> VSlice(ST, r.v), err |-> r.err]
         ELSE [v |-> cur, err |-> "UnmarshalTypeError"]

\* json.Unmarshal(data, &v) with v a fresh variable of type T
Unmarshal(data, T) ==
  IF ~CheckValid(data) THEN [v |-> Zero(T), err |-> "SyntaxError"]
  ELSE Decode(ParseValue(data, 1).tree, T, Zero(T))

(***************************************************************************)
(* The generic helpers of the package.  A Value is passed by value: the    *)
(* helpers see its bytes and nothing else.  A result carries the returned  *)
(* values in `vals` (none when the call panicked).                         *)
(***************************************************************************)
\* From with the error test inverted: if err == nil { panic(err) }
From_Inverted(v) ==
  LET r == Marshal(v) IN
  IF r.err = "nil" THEN [panicked |-> TRUE, err |-> r.err, bytes |-> <<>>]
  ELSE [panicked |-> FALSE, err |-> "nil", bytes |-> r.bytes]

\* func From(v any) Value
From(v) ==
  LET r == Marshal(v) IN
  IF r.err # "nil" THEN [panicked |-> TRUE, err |-> r.err, bytes |-> <<>>]
  ELSE [panicked |-> FALSE, err |-> "nil", bytes |-> r.bytes]

\* func Maybe[T any](j Value) (v T, err error)
Maybe(bytes, T) ==
  LET r == Unmarshal(bytes, T) IN [vals |-> <<r.v>>, err |-> r.err, panicked |-> FALSE]

\* To without the panic: the decode error is dropped and v returned
To_Swallow(bytes, T) ==
  LET r == Unmarshal(bytes, T) IN [vals |-> <<r.v>>, err |-> "nil", panicked |-> FALSE]

\* func To[T any](j Value) (v T)
To(bytes, T) ==
  LET r == Unmarshal(bytes, T) IN
  IF r.err # "nil" THEN [vals |-> <<>>, err |-> r.err, panicked |-> TRUE]
  ELSE [vals |-> <<r.v>>, err |-> "nil", panicked |-> FALSE]

\* Is as a lighter check of its own: well-formed JSON, whatever T is
Is_SyntaxOnly(bytes, T) == CheckValid(bytes)

\* func Is[T any](j Value) bool
Is(bytes, T) == Maybe(bytes, T).err = "nil"

\* func AsA[T any](j RawValue) (v T, err error)
AsA(bytes, T) ==
  LET r == Unmarshal(bytes, T) IN [vals |-> <<r.v>>, err |-> r.err, panicked |-> FALSE]

\* func ToA[T any](j RawValue) (v T)
ToA(bytes, T) ==
  LET r == Unmarshal(bytes, T) IN
  IF r.err # "nil" THEN [vals |-> <<>>, err |-> r.err, panicked |-> TRUE]
  ELSE [vals |-> <<r.v>>, err |-> "nil", panicked |-> FALSE]

\* func IsA[T any](j RawValue) bool
IsA(bytes, T) == AsA(bytes, T).err = "nil"

(***************************************************************************)
(* Slices and the heap.  "data" is the backing array of the caller's own   *)
(* slice; "b1" and "b2" are the arrays the wrapper and the caller's last   *)
(* read-out refer to.                                                      *)
(***************************************************************************)
BufIds == {"data", "b1", "b2"}

NilSlice == [buf |-> "nil", len |-> 0]

Cap(h, s) == IF s.buf = "nil" THEN 0 ELSE Len(h[s.buf])

Content(h, s) == IF s.buf = "nil" THEN <<>> ELSE SubSeq(h[s.buf], 1, s.len)

\* an array no live slice refers to
Fresh(live) == IF "b1" \notin live THEN "b1" ELSE "b2"

\* a new array of capacity c holding bytes
Pad(bytes, c) == [i \in 1..c |-> IF i <= Len(bytes) THEN bytes[i] ELSE NUL]

\* copy bytes over the start of an array
Overwrite(arr, bytes) ==
  [i \in 1..Len(arr) |-> IF i <= Len(bytes) THEN bytes[i] ELSE arr[i]]

\* arrays no live slice refers to are collected
Normalise(h, live) == [b \in BufIds |-> IF b \in live THEN h[b] ELSE <<>>]

\* append(s[0:0], bytes...): in place when the capacity allows, else into a new
\* array f of some capacity c >= Len(bytes)
AppendFromStart(h, s, bytes, f, c) ==
  IF Len(bytes) <= Cap(h, s)
  THEN [heap |-> IF s.buf = "nil" THEN h
                 ELSE [h EXCEPT ![s.buf] = Overwrite(h[s.buf], bytes)],
        s |-> [buf |-> s.buf, len |-> Len(bytes)]]
  ELSE [heap |-> [h EXCEPT ![f] = Pad(bytes, c)],
        s |-> [buf |-> f, len |-> Len(bytes)]]

(***************************************************************************)
(* The methods of Value.  Each yields the heap after the call, the         *)
(* receiver after the call (j: a value receiver leaves the caller's        *)
(* wrapper as it was) and what it returns.  f names a free array for what  *)
(* the method allocates.                                                   *)
(***************************************************************************)
\* MarshalJSON on a pointer receiver that stores the null it returns:
\* if len(*j) == 0 { *j = []byte("null") }; return *j, nil
MarshalJSON_Store(h, jj, f) ==
  IF jj.len = 0
  THEN [heap |-> [h EXCEPT ![f] = NullLit], j |-> [buf |-> f, len |-> 4],
        ref |-> [buf |-> f, len |-> 4], err |-> "nil"]
  ELSE [heap |-> h, j |-> jj, ref |-> jj, err |-> "nil"]

\* func (j Value) MarshalJSON() ([]byte, error)
MarshalJSON(h, jj, f) ==
  IF jj.buf = "nil"
  THEN [heap |-> [h EXCEPT ![f] = NullLit], j |-> jj,
        ref |-> [buf |-> f, len |-> 4], err |-> "nil"]
  ELSE [heap |-> h, j |-> jj, ref |-> jj, err |-> "nil"]

\* UnmarshalJSON that keeps the caller's slice: *j = data
UnmarshalJSON_Alias(h, jj, data, f, c) == [heap |-> h, j |-> data, err |-> "nil"]

\* UnmarshalJSON without the truncation: *j = append(*j, data...)
UnmarshalJSON_NoTruncate(h, jj, data, f, c) ==
  LET old == Content(h, jj)
      all == old \o Content(h, data)
  IN IF Len(all) <= Cap(h, jj)
     THEN [heap |-> IF jj.buf = "nil" THEN h
                    ELSE [h EXCEPT ![jj.buf] = Overwrite(h[jj.buf], all)],
           j |-> [buf |-> jj.buf, len |-> Len(all)], err |-> "nil"]
     ELSE [heap |-> [h EXCEPT ![f] = Pad(all, Len(all))],
           j |-> [buf |-> f, len |-> Len(all)], err |-> "nil"]

\* func (j *Value) UnmarshalJSON(data []byte) error
UnmarshalJSON(h, jj, data, f, c) ==
  LET r == AppendFromStart(h, jj, Content(h, data), f, c) IN
  [heap |-> r.heap, j |-> r.s, err |-> "nil"]

\* String without the copy: the text shares the bytes MarshalJSON returned
String_Alias(h, jj, f) ==
  LET m == MarshalJSON(h, jj, f) IN [heap |-> m.heap, j |-> m.j, ref |-> m.ref]

\* func (j Value) String() string: string(b) copies the bytes
String(h, jj, f) ==
  LET m == MarshalJSON(h, jj, f)
      b == Content(m.heap, m.ref)
  IN [heap |-> [h EXCEPT ![f] = b], j |-> m.j, ref |-> [buf |-> f, len |-> Len(b)]]

\* the back quote byte 0x60, which a TLA+ string cannot hold
BackQuote == "0x60"

GoPrefix == <<"j", "a", "s", "o", "n", ".", "V", "a", "l", "u", "e", "(", BackQuote>>

GoSuffix == <<BackQuote, ")">>

\* func (j Value) GoString() string
GoString(h, jj, f) ==
  LET s == String(h, jj, f)
      b == GoPrefix \o Content(s.heap, s.ref) \o GoSuffix
  IN [heap |-> [h EXCEPT ![f] = b], j |-> s.j, ref |-> [buf |-> f, len |-> Len(b)]]

(***************************************************************************)
(* The typed values a caller hands to From.                                *)
(***************************************************************************)
Ints == 0..MaxInt

Scalars == {VBool(b) : b \in BOOLEAN} \cup {VInt(n) : n \in Ints} \cup {VFloat(n) : n \in Ints}

IntSlices ==
  {VSlice("[]int", <<>>)} \cup {VSlice("[]int", <<VInt(n)>>) : n \in Ints}
    \cup {VSlice("[]int", <<VInt(n), VInt(m)>>) : n \in Ints, m \in Ints}

\* the values of static type T (for any and []any: what an interface may hold)
ValuesOf(T) ==
  CASE T = "bool" -> {VBool(b) : b \in BOOLEAN}
    [] T = "int" -> {VInt(n) : n \in Ints}
    [] T = "float64" -> {VFloat(n) : n \in Ints}
    [] T = "[]int" -> {VNilSlice("[]int")} \cup IntSlices
    [] T = "any" -> {VNil} \cup Scalars
    [] T = "[]any" ->
         {VNilSlice("[]any"), VSlice("[]any", <<>>)}
           \cup {VSlice("[]any", <<x>>) : x \in {VNil} \cup Scalars}
    [] T = "func" -> {VFunc}

(***************************************************************************)
(* State.                                                                  *)
(*   heap  the backing arrays                                              *)
(*   j     the wrapper, a Value: a slice                                   *)
(*   ret   what the caller got from its last call other than               *)
(*         UnmarshalJSON: the operation, the wrapper's bytes when it was   *)
(*         called (arg), the results, and for bytes and text read out the  *)
(*         slice returned (ref) with the bytes it held on return (snap);   *)
(*         since: UnmarshalJSON was called after the read-out; reused: one *)
(*         of those calls found the read-out sharing the wrapper's array   *)
(*         and its data within the capacity                                *)
(*   pop   the last UnmarshalJSON call: its data as passed, its error and  *)
(*         what the wrapper serialized to when it returned (before any     *)
(*         call: the bytes the wrapper was constructed with)               *)
(*   muts  writes the caller made to its slice since that call             *)
(***************************************************************************)
VARIABLES heap, j, ret, pop, muts

vars == <<heap, j, ret, pop, muts>>

NoRet ==
  [op |-> "none", T |-> "none", arg |-> <<>>, in |-> <<>>, vals |-> <<>>,
   err |-> "nil", panicked |-> FALSE, ok |-> FALSE, ref |-> NilSlice,
   snap |-> <<>>, since |-> FALSE, reused |-> FALSE]

\* the read-outs a caller keeps across a later UnmarshalJSON
HeldOps == {"MarshalJSON", "String", "GoString"}

\* the bytes j serializes to: what j.MarshalJSON() returns
Serialized(h, jj) ==
  LET m == MarshalJSON(h, jj, Fresh({jj.buf})) IN Content(m.heap, m.ref)

\* var j Value, or j := Value("...")
Init ==
  /\ \/ /\ j = NilSlice
        /\ heap = [b \in BufIds |-> <<>>]
        /\ pop = [called |-> FALSE, bytes |-> <<>>, err |-> "nil", ser |-> NullLit]
     \/ \E c0 \in Inputs \ {<<>>} :
          /\ j = [buf |-> "b1", len |-> Len(c0)]
          /\ heap = [b \in BufIds |-> IF b = "b1" THEN c0 ELSE <<>>]
          /\ pop = [called |-> FALSE, bytes |-> c0, err |-> "nil", ser |-> c0]
  /\ ret = NoRet
  /\ muts = 0

\* the caller fills its slice with d and calls j.UnmarshalJSON(data)
CallUnmarshalJSON(d, c) ==
  LET h0 == [heap EXCEPT !["data"] = d]
      data == [buf |-> "data", len |-> Len(d)]
      keep == IF ret.op \in HeldOps THEN ret ELSE NoRet
      r == UnmarshalJSON(h0, j, data, Fresh({keep.ref.buf}), c)
      \* the read-out is the wrapper's own array and data fits its capacity
      shared == /\ keep.ref.buf # "nil"
                /\ keep.ref.buf = j.buf
                /\ Len(d) <= Cap(h0, j)
  IN /\ j' = r.j
     /\ heap' = Normalise(r.heap, {"data", r.j.buf, keep.ref.buf})
     /\ ret' = IF keep.op = "none" THEN NoRet
               ELSE [keep EXCEPT !.since = TRUE, !.reused = keep.reused \/ shared]
     /\ pop' = [called |-> TRUE, bytes |-> d, err |-> r.err,
                ser |-> Serialized(r.heap, r.j)]
     /\ muts' = 0

\* the caller writes byte c at index i of the slice it passed
MutateData(i, c) ==
  /\ pop.called
  /\ muts < MaxMut
  /\ i \in 1..Len(heap["data"])
  /\ heap["data"][i] # c
  /\ heap' = [heap EXCEPT !["data"][i] = c]
  /\ muts' = muts + 1
  /\ UNCHANGED <<j, ret, pop>>

\* b, err := j.MarshalJSON()
CallMarshalJSON ==
  LET r == MarshalJSON(heap, j, Fresh({j.buf})) IN
  /\ j' = r.j
  /\ heap' = Normalise(r.heap, {"data", r.j.buf, r.ref.buf})
  /\ ret' = [NoRet EXCEPT !.op = "MarshalJSON", !.arg = Content(heap, j),
                          !.err = r.err, !.ref = r.ref,
                          !.snap = Content(r.heap, r.ref)]
  /\ UNCHANGED <<pop, muts>>

\* s := j.String()
CallString ==
  LET r == String(heap, j, Fresh({j.buf})) IN
  /\ j' = r.j
  /\ heap' = Normalise(r.heap, {"data", r.j.buf, r.ref.buf})
  /\ ret' = [NoRet EXCEPT !.op = "String", !.arg = Content(heap, j),
                          !.ref = r.ref, !.snap = Content(r.heap, r.ref)]
  /\ UNCHANGED <<pop, muts>>

\* s := j.GoString()
CallGoString ==
  LET r == GoString(heap, j, Fresh({j.buf})) IN
  /\ j' = r.j
  /\ heap' = Normalise(r.heap, {"data", r.j.buf, r.ref.buf})
  /\ ret' = [NoRet EXCEPT !.op = "GoString", !.arg = Content(heap, j),
                          !.ref = r.ref, !.snap = Content(r.heap, r.ref)]
  /\ UNCHANGED <<pop, muts>>

\* a helper that decodes was called on j: its results, nothing else changes
Decoded(op, T, r) ==
  /\ ret' = [NoRet EXCEPT !.op = op, !.T = T, !.arg = Content(heap, j),
                          !.vals = r.vals, !.err = r.err, !.panicked = r.panicked]
  /\ heap' = Normalise(heap, {"data", j.buf})
  /\ UNCHANGED <<j, pop, muts>>

\* a helper that tests was called on j
Tested(op, T, b) ==
  /\ ret' = [NoRet EXCEPT !.op = op, !.T = T, !.arg = Content(heap, j), !.ok = b]
  /\ heap' = Normalise(heap, {"data", j.buf})
  /\ UNCHANGED <<j, pop, muts>>

CallTo(T) == Decoded("To", T, To(Content(heap, j), T))

CallMaybe(T) == Decoded("Maybe", T, Maybe(Content(heap, j), T))

CallIs(T) == Tested("Is", T, Is(Content(heap, j), T))

CallToA(T) == Decoded("ToA", T, ToA(Content(heap, j), T))

CallAsA(T) == Decoded("AsA", T, AsA(Content(heap, j), T))

CallIsA(T) == Tested("IsA", T, IsA(Content(heap, j), T))

\* x := From(v), v of static type T
CallFrom(T, v) ==
  LET r == From(v)
      f == Fresh({j.buf})
      ref == IF r.panicked THEN NilSlice ELSE [buf |-> f, len |-> Len(r.bytes)]
  IN /\ ret' = [NoRet EXCEPT !.op = "From", !.T = T, !.in = <<v>>, !.err = r.err,
                             !.panicked = r.panicked, !.ref = ref, !.snap = r.bytes]
     /\ heap' = Normalise([heap EXCEPT ![f] = r.bytes], {"data", j.buf, ref.buf})
     /\ UNCHANGED <<j, pop, muts>>

Next ==
  \/ \E d \in Inputs : \E c \in Len(d)..(Len(d) + MaxSlack) : CallUnmarshalJSON(d, c)
  \/ \E i \in 1..Len(heap["data"]) : \E c \in MutBytes : MutateData(i, c)
  \/ CallMarshalJSON
  \/ CallString
  \/ CallGoString
  \/ \E T \in Types : CallTo(T)
  \/ \E T \in Types : CallMaybe(T)
  \/ \E T \in Types : CallIs(T)

Spec == Init /\ [][Next]_vars

(***************************************************************************)
(* The helpers as functions of the wrapper's bytes: a wrapper constructed  *)
(* with any of CodecInputs, or nil, and every helper applied to it.        *)
(***************************************************************************)
InitCodec ==
  /\ \/ /\ j = NilSlice
        /\ heap = [b \in BufIds |-> <<>>]
        /\ pop = [called |-> FALSE, bytes |-> <<>>, err |-> "nil", ser |-> NullLit]
     \/ \E c0 \in CodecInputs :
          /\ j = [buf |-> "b1", len |-> Len(c0)]
          /\ heap = [b \in BufIds |-> IF b = "b1" THEN c0 ELSE <<>>]
          /\ pop = [called |-> FALSE, bytes |-> c0, err |-> "nil", ser |-> c0]
  /\ ret = NoRet
  /\ muts = 0

NextCodec ==
  \/ \E T \in Types : CallTo(T)
  \/ \E T \in Types : CallMaybe(T)
  \/ \E T \in Types : CallIs(T)
  \/ \E T \in Types : CallToA(T)
  \/ \E T \in Types : CallAsA(T)
  \/ \E T \in Types : CallIsA(T)
  \/ \E T \in Types \cup {"func"} : \E v \in ValuesOf(T) : CallFrom(T, v)

SpecCodec == InitCodec /\ [][NextCodec]_vars

(***************************************************************************)
(* Properties.                                                             *)
(***************************************************************************)

\* C1 (as stated): MarshalJSON returns the four bytes null and no error for every
\* empty wrapper, nil or not, and the stored bytes and no error otherwise.
C1_NullForEveryEmpty ==
  ret.op = "MarshalJSON" =>
    /\ ret.err = "nil"
    /\ ret.snap = (IF ret.arg = <<>> THEN NullLit ELSE ret.arg)

\* C2: once UnmarshalJSON(data) has returned, the wrapper serializes to what it
\* serialized to on return whatever the caller writes into data afterwards, and
\* the wrapper does not refer to data's array.
C2_NonAliasing ==
  pop.called =>
    /\ j.buf # "data"
    /\ Serialized(heap, j) = pop.ser
    /\ Content(heap, j) = pop.bytes

C2_Witness ==
  /\ pop.called
  /\ muts > 0
  /\ pop.bytes # <<>>
  /\ Content(heap, [buf |-> "data", len |-> Len(pop.bytes)]) # pop.bytes
  /\ Serialized(heap, j) = pop.bytes

\* C3: Is[T](b) is true exactly when Maybe[T](b) returns a nil error, and IsA[T](b)
\* exactly when AsA[T](b) does.
C3_IsAgreesWithMaybe ==
  /\ ret.op = "Is" => (ret.ok <=> Maybe(ret.arg, ret.T).err = "nil")
  /\ ret.op = "IsA" => (ret.ok <=> AsA(ret.arg, ret.T).err = "nil")

C3_Witness ==
  /\ ret.op = "Is"
  /\ ~ret.ok
  /\ CheckValid(ret.arg)

\* C4: To[T](b) panics with the decode error, returning nothing, when Maybe[T](b)
\* returns an error, and returns Maybe's value otherwise.
C4_ToPanicsIffMaybeFails ==
  ret.op = "To" =>
    LET m == Maybe(ret.arg, ret.T) IN
    IF m.err # "nil"
    THEN ret.panicked /\ ret.err = m.err /\ ret.vals = <<>>
    ELSE ~ret.panicked /\ ret.vals = m.vals

C4_Witness ==
  /\ ret.op = "To"
  /\ ret.panicked
  /\ ret.err = "UnmarshalTypeError"
  /\ ret.vals = <<>>

\* does decoding the Value From returned give back v
RoundTrips(T) ==
  /\ ~ret.panicked
  /\ To(ret.snap, T) = [vals |-> ret.in, err |-> "nil", panicked |-> FALSE]
  /\ Maybe(ret.snap, T) = [vals |-> ret.in, err |-> "nil", panicked |-> FALSE]

\* C5 (as stated): for every value v the codec can encode, of type T, To[T](From(v))
\* returns a value deep-equal to v, and Maybe[T](From(v)) returns it with a nil error.
C5_RoundTripAll ==
  (ret.op = "From" /\ ret.T \in Types) => RoundTrips(ret.T)

\* C5 (amended): the round trip holds for v of type bool, int, float64 or []int.
C5_RoundTripConcrete ==
  (ret.op = "From" /\ ret.T \in {"bool", "int", "float64", "[]int"}) => RoundTrips(ret.T)

C5_Witness ==
  /\ ret.op = "From"
  /\ ret.T = "[]int"
  /\ Len(ret.in[1].e) = 2
  /\ Content(heap, ret.ref) = ret.snap

\* C6 (as stated): the value Maybe (or AsA) returns with a non-nil error is the zero
\* value of T.
C6_ZeroOnError ==
  (ret.op \in {"Maybe", "AsA"} /\ ret.err # "nil") => ret.vals = <<Zero(ret.T)>>

\* has the bytes or the text the caller read out kept the content it had on return
Intact == Content(heap, ret.ref) = ret.snap

\* C7 (as stated): the bytes from MarshalJSON and the text from String still hold
\* what the wrapper held when they were read, after any later UnmarshalJSON.
C7_ReadOutKeepsContent ==
  ret.op \in {"MarshalJSON", "String"} => Intact

\* C7 (amended): the text from String always does; the bytes from MarshalJSON do
\* unless a later UnmarshalJSON found them sharing the wrapper's array with data
\* that fits its capacity.
C7_TextAndUnsharedBytesKeepContent ==
  /\ ret.op = "String" => Intact
  /\ (ret.op = "MarshalJSON" /\ ~ret.reused) => Intact

C7_Witness ==
  /\ ret.op = "MarshalJSON"
  /\ ret.since
  /\ ~ret.reused
  /\ ret.arg # <<>>
  /\ Content(heap, j) # ret.arg
  /\ Intact

\* C8: every UnmarshalJSON returns a nil error and leaves the wrapper holding
\* exactly the data of the last call; after data null the wrapper serializes to null.
C8_PopulateReplaces ==
  pop.called =>
    /\ pop.err = "nil"
    /\ j.len = Len(pop.bytes)
    /\ \A i \in 1..j.len : heap[j.buf][i] = pop.bytes[i]
    /\ pop.bytes = NullLit => Serialized(heap, j) = NullLit

\* the wrapper holds null in an array that still carries bytes of a longer content
C8_Witness ==
  /\ pop.called
  /\ pop.bytes = NullLit
  /\ Cap(heap, j) > j.len
  /\ heap[j.buf][j.len + 1] # NUL
  /\ ret.op = "MarshalJSON"
  /\ ret.snap = NullLit

\* C9 (as stated): Maybe[T] and Is[T] of an empty wrapper give what they give for a
\* wrapper holding the bytes null.
C9_EmptyDecodesAsNull ==
  /\ (ret.op = "Maybe" /\ ret.arg = <<>>) =>
       (ret.err = Maybe(NullLit, ret.T).err /\ ret.vals = Maybe(NullLit, ret.T).vals)
  /\ (ret.op = "Is" /\ ret.arg = <<>>) => (ret.ok <=> Is(NullLit, ret.T))

ReadOps == {"To", "Maybe", "Is", "MarshalJSON", "String", "GoString"}

\* a step that is a call of To, Maybe, Is, MarshalJSON, String or GoString: it
\* leaves the caller with that call's result, no UnmarshalJSON since, and is no
\* write of the caller to its slice
ReadStep ==
  /\ ret'.op \in ReadOps
  /\ ~ret'.since
  /\ muts' = muts

\* C10: To, Maybe, Is, MarshalJSON, String and GoString leave the wrapper and its
\* bytes as they were, so the wrapper always holds the bytes it was constructed
\* with or the data of the last UnmarshalJSON.
C10_OnlyPopulateMutates ==
  /\ [][ReadStep => (j' = j /\ Content(heap', j') = Content(heap, j))]_vars
  /\ [](Content(heap, j) = pop.bytes)

C10_Witness ==
  /\ pop.called
  /\ ret.op = "To"
  /\ ret.panicked
  /\ Content(heap, j) = pop.bytes

=============================================================================
